---- MODULE Spec2Model ----
(***************************************************************************)
(* Model of the CSV serializer of lib/codecs/src/encoding/format/csv.rs:   *)
(* CsvSerializerConfig::build and <CsvSerializer as Encoder<Event>>::encode *)
(* together with the csv::Writer that encode drives (write_field for every *)
(* configured field, then flush; no write_record, no terminator).          *)
(*                                                                         *)
(* A byte is a one-symbol string, a byte string a sequence of them.  The   *)
(* symbol "FF" stands for the byte 0xFF (never valid in UTF-8) and         *)
(* "EF","BF","BD" for the three bytes of U+FFFD.                           *)
(***************************************************************************)
EXTENDS Integers, Sequences, FiniteSets, TLC

VARIABLES
    config,      \* the CsvSerializerConfig build is called on (its csv options)
    serializer,  \* the CsvSerializer produced by the last successful build
    buildResult, \* what the last build call returned
    buffer,      \* the BytesMut sink handed to encode
    initial,     \* history: the sink's bytes before the first encode call
    calls,       \* history: the successful encode calls, in call order
    last         \* history: the most recent encode call, with its writer's tags

vars == <<config, serializer, buildResult, buffer, initial, calls, last>>

----------------------------------------------------------------------------
(* Bounds of the model *)

\* longest configured field list
MaxFields == 2
\* number of successful encode calls followed on one sink
MaxCalls == 2
\* bytes the sink accepts before a write to it reports zero bytes written
MaxSink == 30

----------------------------------------------------------------------------
(* Sequence helpers *)

Take(s, n) == SubSeq(s, 1, n)

Drop(s, n) == SubSeq(s, n + 1, Len(s))

Min(a, b) == IF a < b THEN a ELSE b

IsPrefix(s, t) == Len(s) <= Len(t) /\ Take(t, Len(s)) = s

Contains(s, b) == \E i \in 1..Len(s) : s[i] = b

RECURSIVE SeqsUpTo(_, _)
SeqsUpTo(S, n) ==
    IF n = 0 THEN {<<>>}
    ELSE LET shorter == SeqsUpTo(S, n - 1)
         IN  shorter \cup {Append(s, x) : s \in shorter, x \in S}

----------------------------------------------------------------------------
(* Text of a value: the conversions of encode's match arms *)

DigitChars == <<"0", "1", "2", "3", "4", "5", "6", "7", "8", "9">>

IsDigit(b) == \E i \in 1..10 : DigitChars[i] = b

RECURSIVE NatToString(_)
NatToString(n) ==
    IF n < 10 THEN <<DigitChars[n + 1]>>
    ELSE NatToString(n \div 10) \o <<DigitChars[(n % 10) + 1]>>

\* i64::to_string
IntToString(int) ==
    IF int < 0 THEN <<"-">> \o NatToString(0 - int) ELSE NatToString(int)

RECURSIVE Pow10(_)
Pow10(k) == IF k = 0 THEN 1 ELSE 10 * Pow10(k - 1)

RECURSIVE ZeroPad(_, _)
ZeroPad(s, width) == IF Len(s) >= width THEN s ELSE ZeroPad(<<"0">> \o s, width)

\* f64::to_string of the float whose shortest round-trip decimal is
\* mant * 10^(-scale): never an exponent, no fraction when the value is whole.
FloatToString(float) ==
    LET a    == IF float.mant < 0 THEN 0 - float.mant ELSE float.mant
        sign == IF float.mant < 0 THEN <<"-">> ELSE <<>>
        ip   == a \div Pow10(float.scale)
        fp   == a % Pow10(float.scale)
    IN  IF float.scale = 0 THEN sign \o NatToString(ip)
        ELSE sign \o NatToString(ip) \o <<".">> \o ZeroPad(NatToString(fp), float.scale)

\* bool::to_string
BoolToString(bool) == IF bool THEN <<"t", "r", "u", "e">> ELSE <<"f", "a", "l", "s", "e">>

\* String::from_utf8_lossy: an invalid byte becomes U+FFFD (EF BF BD)
RECURSIVE FromUtf8Lossy(_)
FromUtf8Lossy(bytes) ==
    IF bytes = <<>> THEN <<>>
    ELSE (IF Head(bytes) = "FF" THEN <<"EF", "BF", "BD">> ELSE <<Head(bytes)>>)
         \o FromUtf8Lossy(Tail(bytes))

\* the civil date (proleptic Gregorian) of a day count since 1970-01-01
CivilFromDays(days) ==
    LET z   == days + 719468
        era == z \div 146097
        doe == z - era * 146097
        yoe == (doe - doe \div 1460 + doe \div 36524 - doe \div 146096) \div 365
        doy == doe - (365 * yoe + yoe \div 4 - yoe \div 100)
        mp  == (5 * doy + 2) \div 153
        d   == doy - (153 * mp + 2) \div 5 + 1
        m   == IF mp < 10 THEN mp + 3 ELSE mp - 9
        y   == yoe + era * 400 + (IF m <= 2 THEN 1 ELSE 0)
    IN  [year |-> y, month |-> m, day |-> d]

\* SecondsFormat::AutoSi: no fraction, or 3, 6 or 9 digits, the fewest that are exact
AutoSiFraction(nanos) ==
    IF nanos = 0 THEN <<>>
    ELSE IF nanos % 1000000 = 0
         THEN <<".">> \o ZeroPad(NatToString(nanos \div 1000000), 3)
    ELSE IF nanos % 1000 = 0
         THEN <<".">> \o ZeroPad(NatToString(nanos \div 1000), 6)
    ELSE <<".">> \o ZeroPad(NatToString(nanos), 9)

\* DateTime<Utc>::to_rfc3339_opts(SecondsFormat::AutoSi, true)
ToRfc3339(timestamp) ==
    LET date == CivilFromDays(timestamp.secs \div 86400)
        sod  == timestamp.secs % 86400
        two(n) == ZeroPad(NatToString(n), 2)
    IN  ZeroPad(NatToString(date.year), 4) \o <<"-">> \o two(date.month) \o <<"-">>
        \o two(date.day) \o <<"T">> \o two(sod \div 3600) \o <<":">>
        \o two((sod % 3600) \div 60) \o <<":">> \o two(sod % 60)
        \o AutoSiFraction(timestamp.nanos) \o <<"Z">>

----------------------------------------------------------------------------
(* Events: the record model that encode reads with log.get(field) *)

None == [kind |-> "None"]

Timestamp(secs, nanos) == [kind |-> "Timestamp", secs |-> secs, nanos |-> nanos]

\* the ConfigTargetPath values the configurations choose from
Paths == {"field1", "field2", "field3"}

\* the log events fed to encode; None is a path that log.get does not find
Events ==
    [ text   |-> [ field1 |-> [kind |-> "Bytes", bytes |-> <<"a", "\"", "b">>],
                   field2 |-> [kind |-> "Bytes", bytes |-> <<",", "\\", "FF">>],
                   field3 |-> [kind |-> "Bytes", bytes |-> <<"1", ".", "5">>] ],
      scalar |-> [ field1 |-> [kind |-> "Integer", int |-> 0 - 12],
                   field2 |-> [kind |-> "Float", mant |-> 35, scale |-> 1],
                   field3 |-> [kind |-> "Boolean", bool |-> TRUE] ],
      other  |-> [ field1 |-> Timestamp(1677481489, 363000000),
                   field2 |-> [kind |-> "Array"],
                   field3 |-> [kind |-> "Null"] ],
      nested |-> [ field1 |-> [kind |-> "Object"],
                   field2 |-> None,
                   field3 |-> [kind |-> "Regex"] ] ]

EventNames == DOMAIN Events

\* LogEvent::get
Get(log, field) == log[field]

----------------------------------------------------------------------------
(* Options *)

QuoteStyles == {"Always", "Necessary", "NonNumeric", "Never"}

Delimiters == {",", "."}

Escapes == {"\"", "\\"}

\* csv::WriterBuilder's quote byte, which encode leaves at its default
QUOTE == "\""

CsvSerializerOptions ==
    [ delimiter    : Delimiters,
      double_quote : BOOLEAN,
      escape       : Escapes,
      quote_style  : QuoteStyles,
      fields       : SeqsUpTo(Paths, MaxFields) ]

\* CsvSerializerOptions::default
DefaultOptions ==
    [ delimiter |-> ",", double_quote |-> TRUE, escape |-> "\"",
      quote_style |-> "Necessary", fields |-> <<>> ]

\* the quote style mapping with NonNumeric falling into the default arm
csv_quote_style_default_arm(opts) ==
    CASE opts.quote_style = "Always" -> "Always"
      [] opts.quote_style = "Never"  -> "Never"
      [] OTHER                       -> "Necessary"

\* CsvSerializerOptions::csv_quote_style
csv_quote_style(opts) ==
    CASE opts.quote_style = "Always"     -> "Always"
      [] opts.quote_style = "NonNumeric" -> "NonNumeric"
      [] opts.quote_style = "Never"      -> "Never"
      [] OTHER                           -> "Necessary"

BuildErrorMessage == "At least one CSV field must be specified"

----------------------------------------------------------------------------
(* The csv writer that encode builds and drives.  buf holds the bytes the  *)
(* writer has produced; tag is a history field recording, for every byte   *)
(* of buf, which write produced it: "open" and "close" for the quotes      *)
(* around a field, "quoted" and "plain" for field text inside and outside  *)
(* quotes, "delim" for a separator.                                        *)

Tags(n, t) == [i \in 1..n |-> t]

\* a writer kept from one encode call to the next, with its count of fields
from_writer_reused(opts) ==
    [ delimiter      |-> opts.delimiter,
      double_quote   |-> opts.double_quote,
      escape         |-> opts.escape,
      style          |-> csv_quote_style(opts),
      buf            |-> <<>>,
      tag            |-> <<>>,
      fields_written |-> Len(calls),
      quoting        |-> FALSE,
      err            |-> FALSE ]

\* WriterBuilder::new().delimiter(..).double_quote(..).escape(..).quote_style(..)
\*     .from_writer(buffer.writer())
from_writer(opts) ==
    [ delimiter      |-> opts.delimiter,
      double_quote   |-> opts.double_quote,
      escape         |-> opts.escape,
      style          |-> csv_quote_style(opts),
      buf            |-> <<>>,
      tag            |-> <<>>,
      fields_written |-> 0,
      quoting        |-> FALSE,
      err            |-> FALSE ]

\* the bytes the writer must quote under QuoteStyle::Necessary
requires_quotes(wtr, b) ==
    \/ b = wtr.delimiter
    \/ b = QUOTE
    \/ (~wtr.double_quote /\ b = wtr.escape)
    \/ b \in {"\r", "\n"}

needs_quotes(wtr, input) == \E i \in 1..Len(input) : requires_quotes(wtr, input[i])

Lower(b) ==
    CASE b = "I" -> "i" [] b = "N" -> "n" [] b = "F" -> "f" [] b = "T" -> "t"
      [] b = "Y" -> "y" [] b = "A" -> "a" [] OTHER -> b

StripSign(s) == IF s # <<>> /\ Head(s) \in {"+", "-"} THEN Tail(s) ELSE s

AllDigits(s) == \A i \in 1..Len(s) : IsDigit(s[i])

\* str::parse::<i128>
ParsesAsInteger(s) == LET d == StripSign(s) IN d # <<>> /\ AllDigits(d)

\* str::parse::<f64>
ParsesAsFloat(s) ==
    LET body  == StripSign(s)
        lower == [i \in 1..Len(body) |-> Lower(body[i])]
        epos  == {i \in 1..Len(body) : body[i] \in {"e", "E"}}
        cut   == IF epos = {} THEN Len(body) + 1
                 ELSE CHOOSE i \in epos : \A j \in epos : i <= j
        mant  == Take(body, cut - 1)
        exp   == Drop(body, cut)
        dots  == {i \in 1..Len(mant) : mant[i] = "."}
    IN  \/ lower \in { <<"i", "n", "f">>, <<"n", "a", "n">>,
                       <<"i", "n", "f", "i", "n", "i", "t", "y">> }
        \/ /\ \A i \in 1..Len(mant) : IsDigit(mant[i]) \/ mant[i] = "."
           /\ Cardinality(dots) <= 1
           /\ \E i \in 1..Len(mant) : IsDigit(mant[i])
           /\ epos # {} => ParsesAsInteger(exp)

is_non_numeric(input) == ~ParsesAsFloat(input) /\ ~ParsesAsInteger(input)

should_quote(wtr, input) ==
    CASE wtr.style = "Always"     -> TRUE
      [] wtr.style = "Never"      -> FALSE
      [] wtr.style = "NonNumeric" -> is_non_numeric(input)
      [] wtr.style = "Necessary"  -> needs_quotes(wtr, input)

\* quoting that uses the escape byte even when double quoting is enabled
RECURSIVE quote_escape_first(_, _, _)
quote_escape_first(input, escape, double_quote) ==
    IF input = <<>> THEN <<>>
    ELSE (IF Head(input) = QUOTE THEN <<escape, QUOTE>> ELSE <<Head(input)>>)
         \o quote_escape_first(Tail(input), escape, double_quote)

\* the text of a quoted field: every quote byte doubled, or escaped
RECURSIVE quote(_, _, _)
quote(input, escape, double_quote) ==
    IF input = <<>> THEN <<>>
    ELSE (IF Head(input) = QUOTE
          THEN (IF double_quote THEN <<QUOTE, QUOTE>> ELSE <<escape, QUOTE>>)
          ELSE <<Head(input)>>)
         \o quote(Tail(input), escape, double_quote)

\* the writer ends the field it is in (closing its quotes) and writes the delimiter
write_delimiter(wtr) ==
    LET closing == IF wtr.quoting THEN <<QUOTE>> ELSE <<>>
    IN  [wtr EXCEPT !.buf = @ \o closing \o <<wtr.delimiter>>,
                    !.tag = @ \o Tags(Len(closing), "close") \o <<"delim">>,
                    !.quoting = FALSE]

\* write_field writing a delimiter before every field, the first included
write_field_leading_delimiter(wtr, field) ==
    LET w       == write_delimiter(wtr)
        quoting == should_quote(w, field)
        opening == IF quoting THEN <<QUOTE>> ELSE <<>>
        text    == IF quoting THEN quote(field, w.escape, w.double_quote) ELSE field
    IN  [w EXCEPT !.buf = @ \o opening \o text,
                  !.tag = @ \o Tags(Len(opening), "open")
                            \o Tags(Len(text), IF quoting THEN "quoted" ELSE "plain"),
                  !.quoting = quoting,
                  !.fields_written = @ + 1]

\* Writer::write_field
write_field(wtr, field) ==
    LET w       == IF wtr.fields_written > 0 THEN write_delimiter(wtr) ELSE wtr
        quoting == should_quote(w, field)
        opening == IF quoting THEN <<QUOTE>> ELSE <<>>
        text    == IF quoting THEN quote(field, w.escape, w.double_quote) ELSE field
    IN  [w EXCEPT !.buf = @ \o opening \o text,
                  !.tag = @ \o Tags(Len(opening), "open")
                            \o Tags(Len(text), IF quoting THEN "quoted" ELSE "plain"),
                  !.quoting = quoting,
                  !.fields_written = @ + 1]

----------------------------------------------------------------------------
(* encode *)

\* encode rejecting the values the CSV format does not support
encode_field_rejecting(wtr, value) ==
    CASE value.kind = "Bytes"     -> write_field(wtr, FromUtf8Lossy(value.bytes))
      [] value.kind = "Integer"   -> write_field(wtr, IntToString(value.int))
      [] value.kind = "Float"     -> write_field(wtr, FloatToString(value))
      [] value.kind = "Boolean"   -> write_field(wtr, BoolToString(value.bool))
      [] value.kind = "Timestamp" -> write_field(wtr, ToRfc3339(value))
      [] value.kind = "Null"      -> write_field(wtr, <<>>)
      [] value.kind = "None"      -> write_field(wtr, <<>>)
      [] OTHER                    -> [wtr EXCEPT !.err = TRUE]

\* one arm of the match on log.get(field), with the ? on its write_field
encode_field(wtr, value) ==
    CASE value.kind = "Bytes"     -> write_field(wtr, FromUtf8Lossy(value.bytes))
      [] value.kind = "Integer"   -> write_field(wtr, IntToString(value.int))
      [] value.kind = "Float"     -> write_field(wtr, FloatToString(value))
      [] value.kind = "Boolean"   -> write_field(wtr, BoolToString(value.bool))
      [] value.kind = "Timestamp" -> write_field(wtr, ToRfc3339(value))
      [] value.kind = "Null"      -> write_field(wtr, <<>>)
      [] value.kind = "None"      -> write_field(wtr, <<>>)
      [] OTHER                    -> write_field(wtr, <<>>)

\* for field in &self.config.csv.fields { ... }, left at the first error
RECURSIVE encode_fields(_, _, _)
encode_fields(wtr, log, fields) ==
    IF fields = <<>> \/ wtr.err THEN wtr
    ELSE encode_fields(encode_field(wtr, Get(log, Head(fields))), log, Tail(fields))

\* encode walking the event's keys, in key order, instead of the configured list
written_in_key_order(opts, log) ==
    encode_fields(from_writer(opts), log,
                  SelectSeq(<<"field1", "field2", "field3">>,
                            LAMBDA p : \E i \in 1..Len(opts.fields) : opts.fields[i] = p))

\* the writer once encode has written every field of the event
written(opts, log) == encode_fields(from_writer(opts), log, opts.fields)

\* a write that replaces the sink's bytes instead of appending to them
sink_write_replacing(sink, bytes) == Take(bytes, Min(MaxSink, Len(bytes)))

\* what the sink holds after the writer's bytes are written to it: the sink
\* takes the bytes there is room for, and a write of zero bytes is an error
sink_write(sink, bytes) == sink \o Take(bytes, Min(MaxSink - Len(sink), Len(bytes)))

\* a flush that ends the record with the writer's terminator first
flush_terminated(wtr, sink) ==
    [ buffer |-> sink_write(sink, wtr.buf \o <<"\n">>),
      result |-> IF ~wtr.err /\ Len(wtr.buf) + 1 <= MaxSink - Len(sink)
                 THEN "Ok" ELSE "Err" ]

\* wtr.flush()?, and the flush of the writer's drop when a write_field failed
flush(wtr, sink) ==
    [ buffer |-> sink_write(sink, wtr.buf),
      result |-> IF ~wtr.err /\ Len(wtr.buf) <= MaxSink - Len(sink)
                 THEN "Ok" ELSE "Err" ]

\* build without its check of the field list
build_unchecked(csv) ==
    [ok |-> TRUE, error |-> "",
     serializer |-> [kind |-> "CsvSerializer", csv |-> csv]]

\* CsvSerializerConfig::build
build(csv) ==
    IF csv.fields = <<>>
    THEN [ok |-> FALSE, error |-> BuildErrorMessage, serializer |-> None]
    ELSE [ok |-> TRUE, error |-> "",
          serializer |-> [kind |-> "CsvSerializer",
                          csv |-> [ delimiter    |-> csv.delimiter,
                                    escape       |-> csv.escape,
                                    double_quote |-> csv.double_quote,
                                    quote_style  |-> csv.quote_style,
                                    fields       |-> csv.fields ]]]

----------------------------------------------------------------------------
(* The state machine *)

NoCall == [event |-> "none", start |-> 0, result |-> "None", tag |-> <<>>, len |-> 0]

Init ==
    /\ config \in CsvSerializerOptions
    /\ serializer = None
    /\ buildResult = [ok |-> FALSE, error |-> "", serializer |-> None]
    /\ buffer = <<"x">>
    /\ initial = buffer
    /\ calls = <<>>
    /\ last = NoCall

\* config.build(): a successful build gives the serializer used from then on
Build ==
    /\ buildResult' = build(config)
    /\ serializer' = IF buildResult'.ok THEN buildResult'.serializer ELSE serializer
    /\ UNCHANGED <<config, buffer, initial, calls, last>>

\* serializer.encode(event, &mut buffer)
Encode(e) ==
    /\ serializer # None
    /\ Len(calls) < MaxCalls
    /\ \E wtr \in {written(serializer.csv, Events[e])} :
       \E out \in {flush(wtr, buffer)} :
           /\ buffer' = out.buffer
           /\ last' = [event |-> e, start |-> Len(buffer), result |-> out.result,
                       tag |-> wtr.tag, len |-> Len(wtr.buf)]
           /\ calls' = IF out.result = "Ok"
                       THEN Append(calls, [event |-> e, start |-> Len(buffer),
                                           len |-> Len(out.buffer) - Len(buffer)])
                       ELSE calls
    /\ UNCHANGED <<config, serializer, buildResult, initial>>

Next ==
    \/ Build
    \/ \E e \in EventNames : Encode(e)

Spec == Init /\ [][Next]_vars

----------------------------------------------------------------------------
(* What the properties below read from a state *)

Called == last.event # "none"

Succeeded == Called /\ last.result = "Ok"

\* the bytes the most recent encode call appended to the sink
LastOut == SubSeq(buffer, last.start + 1, Len(buffer))

\* the event of the most recent encode call and the options of its encoder
LastEvent == Events[last.event]

LastOpts == serializer.csv

\* a line cut into its fields at the bytes tagged "delim"
RECURSIVE FieldsOf(_, _)
FieldsOf(buf, tag) ==
    LET n   == Min(Len(buf), Len(tag))
        pos == {i \in 1..n : tag[i] = "delim"}
    IN  IF pos = {} THEN <<[buf |-> Take(buf, n), tag |-> Take(tag, n)]>>
        ELSE LET i == CHOOSE p \in pos : \A q \in pos : p <= q
             IN  <<[buf |-> Take(buf, i - 1), tag |-> Take(tag, i - 1)]>>
                 \o FieldsOf(SubSeq(buf, i + 1, n), SubSeq(tag, i + 1, n))

\* a field's bytes without the quotes around it
RECURSIVE ContentOf(_)
ContentOf(f) ==
    IF f.buf = <<>> THEN <<>>
    ELSE (IF Head(f.tag) \in {"quoted", "plain"} THEN <<Head(f.buf)>> ELSE <<>>)
         \o ContentOf([buf |-> Tail(f.buf), tag |-> Tail(f.tag)])

Opened(f) == f.buf # <<>> /\ f.tag[1] = "open" /\ f.buf[1] = QUOTE

Closed(f) ==
    Len(f.buf) >= 2 /\ f.tag[Len(f.tag)] = "close" /\ f.buf[Len(f.buf)] = QUOTE

\* the text the specification gives a value (section 4.2, steps b to h)
TextOf(value) ==
    CASE value.kind = "Bytes"     -> FromUtf8Lossy(value.bytes)
      [] value.kind = "Integer"   -> IntToString(value.int)
      [] value.kind = "Float"     -> FloatToString(value)
      [] value.kind = "Boolean"   -> BoolToString(value.bool)
      [] value.kind = "Timestamp" -> ToRfc3339(value)
      [] OTHER                    -> <<>>

\* what a line shows: its bytes, their tags, its fields, and for every
\* configured path the event's value and the text of that value
ViewOf(opts, event, out, tag) ==
    [ out    |-> out,
      tag    |-> tag,
      fields |-> FieldsOf(out, tag),
      value  |-> [i \in 1..Len(opts.fields) |-> Get(event, opts.fields[i])],
      text   |-> [i \in 1..Len(opts.fields) |-> TextOf(Get(event, opts.fields[i]))] ]

\* the line of the most recent encode call, as the sink holds it (one view)
LastViews == {ViewOf(LastOpts, LastEvent, LastOut, last.tag)}

\* the line the options opts give the event named e (one view)
LineViews(opts, e) ==
    {ViewOf(opts, Events[e], w.buf, w.tag) : w \in {written(opts, Events[e])}}

\* the fields of the line the options opts give the event named e (one value)
LineFields(opts, e) == {FieldsOf(w.buf, w.tag) : w \in {written(opts, Events[e])}}

\* absent, null, or a complex value
IsEmptyKind(value) == value.kind \in {"None", "Null", "Array", "Object", "Regex"}

\* a text with every quote character doubled, or preceded by the escape byte
RECURSIVE Escaped(_, _, _)
Escaped(text, double_quote, escape) ==
    IF text = <<>> THEN <<>>
    ELSE (IF Head(text) # QUOTE THEN <<Head(text)>>
          ELSE IF double_quote THEN <<QUOTE, QUOTE>> ELSE <<escape, QUOTE>>)
         \o Escaped(Tail(text), double_quote, escape)

BuildCalled == buildResult.ok \/ buildResult.error # ""

----------------------------------------------------------------------------
(* C1 *)

\* C1: build fails if and only if the configured field list is empty; the
\* failure carries exactly the message "At least one CSV field must be
\* specified" and produces no encoder; with one or more fields build returns
\* an encoder holding the configured options, whatever they are.
C1_BuildFailsIffNoFields ==
    BuildCalled =>
        /\ (config.fields = <<>>) <=> ~buildResult.ok
        /\ ~buildResult.ok =>
              /\ buildResult.error = "At least one CSV field must be specified"
              /\ buildResult.serializer = None
              /\ serializer = None
        /\ buildResult.ok =>
              /\ serializer = buildResult.serializer
              /\ serializer # None
              /\ serializer.csv = config

C1_Witness_Fails == BuildCalled /\ config.fields = <<>> /\ ~buildResult.ok

C1_Witness_Builds ==
    /\ buildResult.ok
    /\ config.delimiter = "." /\ config.escape = "\\" /\ ~config.double_quote
    /\ config.quote_style = "Never"
    /\ Len(config.fields) = 1

----------------------------------------------------------------------------
(* C2 *)

\* C2: a successful encode emits exactly as many fields as are configured,
\* and the i-th emitted field is the text of the event's value at the i-th
\* configured path (quoted and escaped or not): configured order, one field
\* per occurrence of a path.
C2_FieldsFollowConfiguredList ==
    Succeeded =>
        \A v \in LastViews :
            /\ Len(v.fields) = Len(LastOpts.fields)
            /\ \A i \in 1..Len(LastOpts.fields) :
                  ContentOf(v.fields[i]) =
                      IF Opened(v.fields[i])
                      THEN Escaped(v.text[i], LastOpts.double_quote, LastOpts.escape)
                      ELSE v.text[i]

\* two paths configured against the event's key order, with different texts
C2_Witness ==
    /\ Succeeded
    /\ last.event = "scalar"
    /\ LastOpts.fields = <<"field3", "field1">>
    /\ LastOpts.quote_style = "Necessary" /\ LastOpts.delimiter = ","
    /\ LastOut = <<"t", "r", "u", "e", ",", "-", "1", "2">>

\* a path listed twice
C2_Witness_Duplicate ==
    /\ Succeeded
    /\ last.event = "scalar"
    /\ LastOpts.fields = <<"field2", "field2">>
    /\ LastOpts.quote_style = "Necessary" /\ LastOpts.delimiter = ","
    /\ LastOut = <<"3", ".", "5", ",", "3", ".", "5">>

----------------------------------------------------------------------------
(* C3 *)

\* the (event, path) pairs of the model that are absent, null or complex
EmptyValued == {ep \in EventNames \X Paths : IsEmptyKind(Get(Events[ep[1]], ep[2]))}

\* C3: a configured path that is absent from the event, or resolves to null
\* or to a complex value, gives an empty field text at its position and no
\* failure (encode fails only when the sink takes no more bytes); absent,
\* null and complex values give the same bytes at the same position.
C3_MissingNullComplexAreEmpty ==
    Called =>
        /\ last.result = "Err" => last.len > MaxSink - last.start
        /\ Succeeded =>
              \A v \in LastViews :
                  \A i \in 1..Len(LastOpts.fields) :
                      IsEmptyKind(v.value[i]) =>
                          /\ ContentOf(v.fields[i]) = <<>>
                          /\ \A ep \in EmptyValued :
                                \A fs \in LineFields([LastOpts EXCEPT !.fields[i] = ep[2]],
                                                     ep[1]) :
                                    fs[i].buf = v.fields[i].buf

\* an absent path after a complex value, neither quoted
C3_Witness ==
    /\ Succeeded
    /\ last.event = "nested"
    /\ LastOpts.fields = <<"field1", "field2">>
    /\ LastOpts.quote_style = "Necessary" /\ LastOpts.delimiter = ","
    /\ LastOut = <<",">>

----------------------------------------------------------------------------
(* C4 *)

NeedsQuoting(v, i) ==
    /\ v.value[i].kind = "Bytes"
    /\ Contains(v.text[i], LastOpts.delimiter) \/ Contains(v.text[i], QUOTE)

Unquoted(v, i) == ~Opened(v.fields[i]) /\ v.fields[i].buf = v.text[i]

----------------------------------------------------------------------------
(* C5 *)

\* C5: inside a quoted field every quote character of the text is emitted
\* as two quote characters when double quoting is enabled, whatever the
\* escape byte, and as the escape byte followed by one quote character when
\* it is disabled; the other bytes of the text are emitted as they are.
C5_QuoteDoubledOrEscaped ==
    Succeeded =>
        \A v \in LastViews :
            \A i \in 1..Len(LastOpts.fields) :
                Opened(v.fields[i]) =>
                    ContentOf(v.fields[i]) =
                        Escaped(v.text[i], LastOpts.double_quote, LastOpts.escape)

\* a"b quoted with double quoting disabled and escape byte \
C5_Witness ==
    /\ Succeeded
    /\ last.event = "text"
    /\ LastOpts.fields = <<"field1", "field3">>
    /\ ~LastOpts.double_quote /\ LastOpts.escape = "\\"
    /\ LastOpts.quote_style = "Necessary" /\ LastOpts.delimiter = ","
    /\ LastOut = <<"\"", "a", "\\", "\"", "b", "\"", ",", "1", ".", "5">>

\* a"b quoted with double quoting enabled and escape byte \, which is ignored
C5_Witness_Doubled ==
    /\ Succeeded
    /\ last.event = "text"
    /\ LastOpts.fields = <<"field1", "field3">>
    /\ LastOpts.double_quote /\ LastOpts.escape = "\\"
    /\ LastOpts.quote_style = "Necessary" /\ LastOpts.delimiter = ","
    /\ LastOut = <<"\"", "a", "\"", "\"", "b", "\"", ",", "1", ".", "5">>

----------------------------------------------------------------------------
(* C6 *)

RECURSIVE JoinFields(_, _)
JoinFields(fs, delimiter) ==
    IF fs = <<>> THEN <<>>
    ELSE IF Len(fs) = 1 THEN fs[1].buf
    ELSE fs[1].buf \o <<delimiter>> \o JoinFields(Tail(fs), delimiter)

\* a field is its text, with a quote before it when it was opened and a
\* quote after it when it was closed, and nothing else
IsFieldBytes(f) ==
    f.buf = (IF Opened(f) THEN <<QUOTE>> ELSE <<>>) \o ContentOf(f)
            \o (IF Closed(f) THEN <<QUOTE>> ELSE <<>>)

\* C6 as claimed: the bytes a successful encode appends end with the
\* writer's line terminator.
C6_Original_LineIsTerminated ==
    Succeeded => LastOut # <<>> /\ LastOut[Len(LastOut)] = "\n"

\* C6 as amended: the bytes a successful encode appends are exactly the
\* bytes of the configured fields of one event and of the delimiters
\* between them; no line terminator follows the last field, so the bytes of
\* two consecutive calls follow each other with nothing between them.
C6_LineIsFieldsOnly ==
    Succeeded =>
        \A v \in LastViews :
            /\ Len(v.fields) = Len(LastOpts.fields)
            /\ LastOut = JoinFields(v.fields, LastOpts.delimiter)
            /\ \A i \in 1..Len(v.fields) : IsFieldBytes(v.fields[i])
            /\ Len(calls) >= 2 =>
                  \A prev \in {calls[Len(calls) - 1]} :
                      last.start = prev.start + prev.len =>
                          buffer = Take(buffer, prev.start)
                                   \o written(LastOpts, Events[prev.event]).buf
                                   \o JoinFields(v.fields, LastOpts.delimiter)

\* two lines in the sink, the second right after the first
C6_Witness ==
    /\ Succeeded
    /\ Len(calls) = 2
    /\ LastOpts.fields = <<"field3">> /\ LastOpts.quote_style = "Necessary"
    /\ buffer = <<"x", "t", "r", "u", "e", "t", "r", "u", "e">>

----------------------------------------------------------------------------
(* C7 *)

DelimiterTagged(v) == {j \in 1..Len(v.out) : v.tag[j] = "delim"}

\* the delimiter bytes of the line that are not inside quotes
DelimiterOutsideQuotes(v) ==
    {j \in 1..Len(v.out) : v.out[j] = LastOpts.delimiter /\ v.tag[j] # "quoted"}

\* C7 as claimed (its count): the line of n fields holds exactly n-1
\* delimiter bytes outside quoted text.
C7_Original_DelimiterCount ==
    Succeeded =>
        \A v \in LastViews :
            Cardinality(DelimiterOutsideQuotes(v)) = Len(LastOpts.fields) - 1

\* C7 as amended: the writer puts exactly n-1 separators, each the
\* delimiter byte, one between every two consecutive fields, none before
\* the first field and none after the last; they are the only delimiter
\* bytes outside quoted text when every field whose text contains the
\* delimiter is quoted (always under Always and Necessary).  Another
\* delimiter byte gives the same number of fields with the same text; a
\* field's bytes differ only when its quoting decision differs, which
\* happens only when its text contains one of the two delimiters.
C7_SeparatorsBetweenFields ==
    Succeeded =>
        \A v \in LastViews, n \in {Len(LastOpts.fields)} :
            /\ Cardinality(DelimiterTagged(v)) = n - 1
            /\ \A j \in DelimiterTagged(v) : v.out[j] = LastOpts.delimiter
            /\ Len(v.fields) = n
            /\ v.out = JoinFields(v.fields, LastOpts.delimiter)
            /\ (\A i \in 1..n : Contains(v.text[i], LastOpts.delimiter)
                                    => Opened(v.fields[i]))
                  => DelimiterOutsideQuotes(v) = DelimiterTagged(v)
            /\ LastOpts.quote_style \in {"Always", "Necessary"}
                  => DelimiterOutsideQuotes(v) = DelimiterTagged(v)
            /\ \A d \in Delimiters :
                  \A g \in LineViews([LastOpts EXCEPT !.delimiter = d], last.event) :
                      /\ Len(g.fields) = n
                      /\ Cardinality({j \in 1..Len(g.out) : g.tag[j] = "delim"}) = n - 1
                      /\ \A j \in 1..Len(g.out) : g.tag[j] = "delim" => g.out[j] = d
                      /\ \A i \in 1..n :
                            /\ Opened(v.fields[i]) = Opened(g.fields[i])
                                  => v.fields[i].buf = g.fields[i].buf
                            /\ Opened(v.fields[i]) # Opened(g.fields[i]) =>
                                  \/ Contains(v.text[i], d)
                                  \/ Contains(v.text[i], LastOpts.delimiter)
                            /\ ContentOf(g.fields[i]) =
                                  IF Opened(g.fields[i])
                                  THEN Escaped(v.text[i], LastOpts.double_quote,
                                               LastOpts.escape)
                                  ELSE v.text[i]

\* two fields separated by the one comma outside quotes; the first holds a
\* comma and is quoted, the second would be quoted with delimiter '.'
C7_Witness ==
    /\ Succeeded
    /\ last.event = "text"
    /\ LastOpts.fields = <<"field2", "field3">>
    /\ LastOpts.quote_style = "Necessary" /\ LastOpts.delimiter = ","
    /\ \A v \in LastViews :
          /\ DelimiterOutsideQuotes(v) = {8}
          /\ Opened(v.fields[1]) /\ ~Opened(v.fields[2])
          /\ \A g \in LineViews([LastOpts EXCEPT !.delimiter = "."], last.event) :
                ~Opened(g.fields[1]) /\ Opened(g.fields[2])

----------------------------------------------------------------------------
(* C8 *)

\* the bytes of successful call k, as the sink holds them
OutputOf(k) == SubSeq(buffer, calls[k].start + 1, calls[k].start + calls[k].len)

RECURSIVE SumLen(_)
SumLen(cs) == IF cs = <<>> THEN 0 ELSE Head(cs).len + SumLen(Tail(cs))

\* the lines of the events of the calls cs, one after the other
RECURSIVE LinesOf(_)
LinesOf(cs) ==
    IF cs = <<>> THEN <<>>
    ELSE written(serializer.csv, Events[Head(cs).event]).buf \o LinesOf(Tail(cs))

\* C8: every encode call, successful or failed, leaves the bytes the sink
\* held as a prefix of what it holds afterwards; after k successful calls
\* (and no bytes left by a failed one) the sink holds its initial bytes
\* followed by the lines of the k events in call order.
C8_EncodeOnlyAppends ==
    /\ [][IsPrefix(buffer, buffer')]_vars
    /\ [](/\ IsPrefix(initial, buffer)
          /\ Len(buffer) = Len(initial) + SumLen(calls)
                => buffer = initial \o LinesOf(calls))

\* a successful call followed by a failed one that left part of its line
C8_Witness ==
    /\ Len(calls) = 1 /\ calls[1].len > 0
    /\ last.result = "Err"
    /\ last.start = calls[1].start + calls[1].len
    /\ Len(buffer) > last.start

\* two successful calls with different lines
C8_Witness_Two ==
    /\ Len(calls) = 2 /\ Succeeded
    /\ calls[1].event # calls[2].event
    /\ calls[1].len > 0 /\ calls[2].len > 0
    /\ buffer = initial \o OutputOf(1) \o OutputOf(2)

----------------------------------------------------------------------------
(* C9 *)

\* C9: the encoder holds the options build was given, and no encode call
\* changes them; the bytes a successful call appends are those a newly built
\* encoder of the same options writes for the event, and any two successful
\* calls for the same event have appended the same bytes, whatever was
\* encoded before them.
C9_OutputDependsOnOptionsAndEvent ==
    /\ serializer # None => serializer.csv = config
    /\ Succeeded =>
          LastOut = written(build(config).serializer.csv, LastEvent).buf
    /\ \A j, k \in 1..Len(calls) :
          calls[j].event = calls[k].event => OutputOf(j) = OutputOf(k)

\* the same event encoded twice, after different sink contents
C9_Witness ==
    /\ Len(calls) = 2
    /\ calls[1].event = "text" /\ calls[2].event = "text"
    /\ calls[1].start # calls[2].start
    /\ config.fields = <<"field1", "field3">>
    /\ OutputOf(1) = OutputOf(2) /\ Len(OutputOf(2)) > 0

----------------------------------------------------------------------------
(* C10 *)

\* C10: every field of a successful encode that was opened with a quote
\* character is closed with one, the last field of the list included.
C10_QuotedFieldsAreClosed ==
    Succeeded =>
        \A v \in LastViews :
            \A i \in 1..Len(v.fields) : Opened(v.fields[i]) => Closed(v.fields[i])

====
